---- MODULE Spec2Model ----
(***************************************************************************)
(* Model of the fixed-arena allocator of src/table-0/main.c:               *)
(* Memory_Init, My_Malloc (first fit with in-place split) and My_Free      *)
(* (forward then backward coalescing) over the block chain embedded in     *)
(* memory_pool.                                                            *)
(*                                                                         *)
(* Addresses are absolute byte addresses; NULL is address 0 and the arena  *)
(* occupies [ArenaBase, ArenaBase + MEMORY_POOL_SIZE).                     *)
(*                                                                         *)
(* A size_t value v is held as its residue of least magnitude modulo 2^64: *)
(* a non-negative integer n stands for n, and -k stands for 2^64 - k       *)
(* (so -1 is SIZE_MAX).  Sums and differences of such residues are exact   *)
(* modulo 2^64 while magnitudes stay far below 2^63, which every value of  *)
(* this model does; the unsigned order of size_t is ULt / UGe below.       *)
(***************************************************************************)
EXTENDS Integers, Sequences, FiniteSets, TLC

VARIABLES hdr, first_block, is_initialized, held, issued, last, pre

vars == <<hdr, first_block, is_initialized, held, issued, last, pre>>

\* ---------------------------------------------------------------- constants
MEMORY_POOL_SIZE == 1024 * 10

HeaderSize == 32

MIN_BLOCK_SIZE == HeaderSize

FREE == 0

ALLOCATED == 1

NULL == 0

ArenaBase == 4096

ArenaEnd == ArenaBase + MEMORY_POOL_SIZE

\* ------------------------------------------------------------------- bounds
\* number of handles My_Malloc hands out in one run
MaxIssued == 4

\* request sizes the caller passes to My_Malloc (-1 is SIZE_MAX, -5 is SIZE_MAX - 4)
Requests == {0, 3, 100, 200, 300, 10150, 10208, 10240, -1, -5}

\* pointers the caller passes to My_Free besides the handles it holds
BadPtrs == {NULL, ArenaBase - 8, ArenaBase + 16, ArenaEnd + HeaderSize, ArenaEnd + 100}

\* ---------------------------------------------------- size_t arithmetic
\* unsigned a < b on residues
ULt(a, b) == IF (a < 0) = (b < 0) THEN a < b ELSE b < 0

\* unsigned a >= b on residues
UGe(a, b) == ~ULt(a, b)

\* size = (size + 3) & ~3, line 65
RoundUp4(size) == LET t == size + 3 IN t - (t % 4)

\* ------------------------------------------------------------ the headers
Header(sz, st, nx, pv) == [size |-> sz, status |-> st, next |-> nx, prev |-> pv]

\* the allocator's static state as one value
State(h, f, i) == [hdr |-> h, first_block |-> f, is_initialized |-> i]

Cur == State(hdr, first_block, is_initialized)

\* Memory_Init, lines 33-50
InitNoGuard(s) ==
    State((ArenaBase :> Header(MEMORY_POOL_SIZE - HeaderSize, FREE, NULL, NULL)) @@ s.hdr,
          ArenaBase, 1)

InitState(s) ==
    IF s.is_initialized # 0
    THEN s
    ELSE State((ArenaBase :> Header(MEMORY_POOL_SIZE - HeaderSize, FREE, NULL, NULL)) @@ s.hdr,
               ArenaBase, 1)

\* ------------------------------------------------------------- My_Malloc
\* the while loop of lines 76-117: the first block from cur on that is FREE
\* and large enough, NULL when the chain is exhausted
RECURSIVE FindFitStrict(_, _, _)
FindFitStrict(h, cur, size) ==
    IF cur = NULL THEN NULL
    ELSE IF h[cur].status = FREE /\ ULt(size, h[cur].size) THEN cur
    ELSE FindFitStrict(h, h[cur].next, size)

RECURSIVE FindFit(_, _, _)
FindFit(h, cur, size) ==
    IF cur = NULL THEN NULL
    ELSE IF h[cur].status = FREE /\ UGe(h[cur].size, size) THEN cur
    ELSE FindFit(h, h[cur].next, size)

\* the split test of lines 82-83
NeedSplitStrict(h, current, size) ==
    ULt(size + HeaderSize + MIN_BLOCK_SIZE, h[current].size)

NeedSplitNoMin(h, current, size) ==
    UGe(h[current].size, size + HeaderSize)

NeedSplit(h, current, size) ==
    UGe(h[current].size, size + HeaderSize + MIN_BLOCK_SIZE)

\* lines 86-105: carve new_block out of current
SplitCycle(h, current, size) ==
    LET new_block == current + HeaderSize + size
        nb == Header(h[current].size - size - HeaderSize, FREE, current, current)
        h1 == (new_block :> nb) @@ h
        h2 == [h1 EXCEPT ![current].size = size, ![current].next = new_block]
    IN  [h2 EXCEPT ![current].prev = new_block]

SplitKeepHeader(h, current, size) ==
    LET new_block == current + HeaderSize + size
        nb == Header(h[current].size - size, FREE, h[current].next, current)
        h1 == (new_block :> nb) @@ h
        h2 == [h1 EXCEPT ![current].size = size, ![current].next = new_block]
    IN  IF nb.next # NULL THEN [h2 EXCEPT ![nb.next].prev = new_block] ELSE h2

SplitKeepSize(h, current, size) ==
    LET new_block == current + HeaderSize + size
        nb == Header(h[current].size - size - HeaderSize, FREE, h[current].next, current)
        h1 == (new_block :> nb) @@ h
        h2 == [h1 EXCEPT ![current].next = new_block]
    IN  IF nb.next # NULL THEN [h2 EXCEPT ![nb.next].prev = new_block] ELSE h2

SplitNoRelink(h, current, size) ==
    LET new_block == current + HeaderSize + size
        nb == Header(h[current].size - size - HeaderSize, FREE, h[current].next, current)
        h1 == (new_block :> nb) @@ h
    IN  [h1 EXCEPT ![current].size = size, ![current].next = new_block]

Split(h, current, size) ==
    LET new_block == current + HeaderSize + size
        nb == Header(h[current].size - size - HeaderSize, FREE, h[current].next, current)
        h1 == (new_block :> nb) @@ h
        h2 == [h1 EXCEPT ![current].size = size, ![current].next = new_block]
    IN  IF nb.next # NULL THEN [h2 EXCEPT ![nb.next].prev = new_block] ELSE h2

\* the outcome of a call: the allocator's state, the value returned and the
\* return statement taken
Outcome(s, r, w) == [st |-> s, ret |-> r, why |-> w]

\* lines 73-120, on an initialized allocator and a rounded size that is not 0
SearchNoMark(s, size) ==
    LET current == FindFit(s.hdr, s.first_block, size)
    IN  IF current = NULL
        THEN Outcome(s, NULL, "OutOfMemory")
        ELSE Outcome(State(IF NeedSplit(s.hdr, current, size)
                           THEN Split(s.hdr, current, size)
                           ELSE s.hdr,
                           s.first_block, s.is_initialized),
                     current + HeaderSize, "ok")

Search(s, size) ==
    LET current == FindFit(s.hdr, s.first_block, size)
    IN  IF current = NULL
        THEN Outcome(s, NULL, "OutOfMemory")
        ELSE LET h1 == IF NeedSplit(s.hdr, current, size)
                       THEN Split(s.hdr, current, size)
                       ELSE s.hdr
                 h2 == [h1 EXCEPT ![current].status = ALLOCATED]
             IN  Outcome(State(h2, s.first_block, s.is_initialized),
                         current + HeaderSize, "ok")

\* My_Malloc, lines 53-121
MallocNoImplicitInit(s, size) ==
    IF RoundUp4(size) = 0
    THEN Outcome(s, NULL, "InvalidSize")
    ELSE Search(s, RoundUp4(size))

MallocLateZeroCheck(s, size) ==
    LET out == Search(InitState(s), RoundUp4(size))
    IN  IF RoundUp4(size) = 0
        THEN Outcome(out.st, NULL, "InvalidSize")
        ELSE out

MallocNoZeroCheck(s, size) ==
    Search(InitState(s), RoundUp4(size))

MallocOp(s, size) ==
    LET s1 == InitState(s)
        sz == RoundUp4(size)
    IN  IF sz = 0
        THEN Outcome(s1, NULL, "InvalidSize")
        ELSE Search(s1, sz)

\* --------------------------------------------------------------- My_Free
\* The model keeps the headers of the blocks in the chain.  The bytes of an
\* absorbed header stay in memory (the code does not clear them) as part of the
\* surviving block's data region; the allocator reads them again only after
\* Split has stored all four fields there, so the model drops them.
Forget(h, block) == [a \in DOMAIN h \ {block} |-> h[a]]

\* lines 152-162: absorb the successor when it is FREE
ForwardAnyStatus(h, block) ==
    LET next_block == h[block].next
    IN  IF next_block # NULL
        THEN LET h1 == [h EXCEPT ![block].size = @ + HeaderSize + h[next_block].size,
                                 ![block].next = h[next_block].next]
                 h2 == IF h[next_block].next # NULL
                       THEN [h1 EXCEPT ![h[next_block].next].prev = block]
                       ELSE h1
             IN  Forget(h2, next_block)
        ELSE h

ForwardNone(h, block) == h

ForwardNoRelink(h, block) ==
    LET next_block == h[block].next
    IN  IF next_block # NULL /\ h[next_block].status = FREE
        THEN Forget([h EXCEPT ![block].size = @ + HeaderSize + h[next_block].size,
                              ![block].next = h[next_block].next],
                    next_block)
        ELSE h

ForwardCoalesce(h, block) ==
    LET next_block == h[block].next
    IN  IF next_block # NULL /\ h[next_block].status = FREE
        THEN LET h1 == [h EXCEPT ![block].size = @ + HeaderSize + h[next_block].size,
                                 ![block].next = h[next_block].next]
                 h2 == IF h[next_block].next # NULL
                       THEN [h1 EXCEPT ![h[next_block].next].prev = block]
                       ELSE h1
             IN  Forget(h2, next_block)
        ELSE h

\* lines 165-175: fold the block into its predecessor when that is FREE
BackwardNone(h, block) == h

BackwardNoHeader(h, block) ==
    LET prev_block == h[block].prev
    IN  IF prev_block # NULL /\ h[prev_block].status = FREE
        THEN LET h1 == [h EXCEPT ![prev_block].size = @ + h[block].size,
                                 ![prev_block].next = h[block].next]
                 h2 == IF h[block].next # NULL
                       THEN [h1 EXCEPT ![h[block].next].prev = prev_block]
                       ELSE h1
             IN  Forget(h2, block)
        ELSE h

BackwardCoalesce(h, block) ==
    LET prev_block == h[block].prev
    IN  IF prev_block # NULL /\ h[prev_block].status = FREE
        THEN LET h1 == [h EXCEPT ![prev_block].size = @ + HeaderSize + h[block].size,
                                 ![prev_block].next = h[block].next]
                 h2 == IF h[block].next # NULL
                       THEN [h1 EXCEPT ![h[block].next].prev = prev_block]
                       ELSE h1
             IN  Forget(h2, block)
        ELSE h

\* lines 148-175: release the block whose header is at address block
ReleaseNoMark(h, block) ==
    BackwardCoalesce(ForwardCoalesce(h, block), block)

Release(h, block) ==
    LET h1 == [h EXCEPT ![block].status = FREE]
        h2 == ForwardCoalesce(h1, block)
    IN  BackwardCoalesce(h2, block)

\* the range test of lines 141-142
OutsidePool(block) == block < ArenaBase \/ block >= ArenaEnd

\* My_Free, lines 124-176, with the error message falling through to line 149;
\* a header never stored before reads as the zero bytes of the static arena
FreeFallThrough(s, ptr) ==
    IF ptr = NULL
    THEN Outcome(s, NULL, "null")
    ELSE LET block == ptr - HeaderSize
             h0 == IF block \in DOMAIN s.hdr
                   THEN s.hdr
                   ELSE (block :> Header(0, FREE, NULL, NULL)) @@ s.hdr
         IN  Outcome(State(Release(h0, block), s.first_block, s.is_initialized), NULL,
                     IF OutsidePool(block) THEN "InvalidPointer" ELSE "ok")

\* My_Free, lines 124-176
FreeOp(s, ptr) ==
    IF ptr = NULL
    THEN Outcome(s, NULL, "null")
    ELSE LET block == ptr - HeaderSize
         IN  IF OutsidePool(block)
             THEN Outcome(s, NULL, "InvalidPointer")
             ELSE Outcome(State(Release(s.hdr, block), s.first_block, s.is_initialized),
                          NULL, "ok")

\* ---------------------------------------------------------------- actions
\* what the caller did last: the function, its argument, the value returned and
\* the return statement taken
Call(o, a, r, w) == [op |-> o, arg |-> a, ret |-> r, why |-> w]

\* the state a call started from
Snapshot == [st |-> Cur, held |-> held]

Init ==
    /\ hdr = <<>>
    /\ first_block = NULL
    /\ is_initialized = 0
    /\ held = <<>>
    /\ issued = 0
    /\ last = Call("none", 0, NULL, "none")
    /\ pre = [st |-> State(<<>>, NULL, 0), held |-> <<>>]

Install(s) ==
    /\ hdr' = s.hdr
    /\ first_block' = s.first_block
    /\ is_initialized' = s.is_initialized

Memory_Init ==
    /\ Install(InitState(Cur))
    /\ UNCHANGED <<held, issued>>
    /\ last' = Call("init", 0, NULL, "ok")
    /\ pre' = Snapshot

My_Malloc ==
    \E size \in Requests :
        /\ issued < MaxIssued
        /\ LET out == MallocOp(Cur, size)
           IN  /\ Install(out.st)
               /\ held' = IF out.ret = NULL
                          THEN held
                          ELSE (out.ret :> out.st.hdr[out.ret - HeaderSize].size) @@ held
               /\ issued' = IF out.ret = NULL THEN issued ELSE issued + 1
               /\ last' = Call("malloc", size, out.ret, out.why)
        /\ pre' = Snapshot

My_Free ==
    \E ptr \in DOMAIN held \cup BadPtrs :
        /\ LET out == FreeOp(Cur, ptr)
           IN  /\ Install(out.st)
               /\ last' = Call("free", ptr, NULL, out.why)
        /\ held' = [p \in DOMAIN held \ {ptr} |-> held[p]]
        /\ issued' = issued
        /\ pre' = Snapshot

Next == Memory_Init \/ My_Malloc \/ My_Free

Spec == Init /\ [][Next]_vars

\* ------------------------------------------------------- reading the chain
\* the traversal of Memory_Stats, lines 181-203: the addresses met following
\* next from a, at most fuel of them
RECURSIVE Walk(_, _, _)
Walk(h, a, fuel) ==
    IF a = NULL \/ fuel = 0 \/ a \notin DOMAIN h
    THEN <<>>
    ELSE <<a>> \o Walk(h, h[a].next, fuel - 1)

\* the same following prev
RECURSIVE WalkBack(_, _, _)
WalkBack(h, a, fuel) ==
    IF a = NULL \/ fuel = 0 \/ a \notin DOMAIN h
    THEN <<>>
    ELSE <<a>> \o WalkBack(h, h[a].prev, fuel - 1)

Chain(s) == Walk(s.hdr, s.first_block, Cardinality(DOMAIN s.hdr) + 1)

Blocks(s) == LET c == Chain(s) IN {c[i] : i \in 1..Len(c)}

Reverse(q) == [i \in 1..Len(q) |-> q[Len(q) + 1 - i]]

\* one FREE block over the whole arena, as Memory_Init leaves it
Fresh == State((ArenaBase :> Header(MEMORY_POOL_SIZE - HeaderSize, FREE, NULL, NULL)),
               ArenaBase, 1)

\* the last call was a My_Free that released a block
Freed == last.op = "free" /\ last.why = "ok"

\* the last call was a My_Malloc that returned a handle
Allocated == last.op = "malloc" /\ last.ret # NULL

\* the chain a My_Malloc call searches: the one it found, after the implicit
\* Memory_Init of lines 59-62
Searched == InitState(pre.st)

\* ------------------------------------------------------------------- C1
\* the sizes of all the blocks of q added up, ALLOCATED ones included: the
\* quantity C1 is about (Memory_Stats' total_free, lines 195-199, adds up the
\* FREE blocks only and is not this sum)
RECURSIVE SumSizes(_, _)
SumSizes(h, q) == IF q = <<>> THEN 0 ELSE h[Head(q)].size + SumSizes(h, Tail(q))

Gapless(s) ==
    LET c == Chain(s)
        h == s.hdr
    IN  /\ Len(c) > 0
        /\ c[1] = ArenaBase
        /\ \A i \in 1..(Len(c) - 1) : c[i] + HeaderSize + h[c[i]].size = c[i + 1]
        /\ c[Len(c)] + HeaderSize + h[c[Len(c)]].size = ArenaEnd
        /\ SumSizes(h, c) + HeaderSize * Len(c) = MEMORY_POOL_SIZE

\* C1: once the allocator is initialized, in every state reached by Memory_Init,
\* My_Malloc and My_Free on held handles the chain starts at the arena base,
\* each block ends where its successor starts, the last block ends at the end
\* of the arena, and sizes plus headers add up to MEMORY_POOL_SIZE.
C1_ChainCoversArena == is_initialized = 1 => Gapless(Cur)

\* a release has just merged blocks in a chain that still has four blocks
C1_Witness ==
    /\ Freed
    /\ Len(Chain(Cur)) >= 4
    /\ Len(Chain(pre.st)) > Len(Chain(Cur))
    /\ Gapless(Cur)

\* ------------------------------------------------------------------- C2
NoAdjacentFree(s) ==
    LET c == Chain(s)
    IN  \A i \in 1..(Len(c) - 1) :
            ~(s.hdr[c[i]].status = FREE /\ s.hdr[c[i + 1]].status = FREE)

\* C2: in every reachable state, so after every My_Free of a held handle and
\* after every later My_Malloc, no two neighbours in the chain are both FREE.
C2_NoAdjacentFree == NoAdjacentFree(Cur)

\* a release of a block whose predecessor was FREE, with blocks still allocated
C2_Witness ==
    /\ Freed
    /\ LET b == last.arg - HeaderSize
           p == pre.st.hdr[b].prev
       IN  p # NULL /\ pre.st.hdr[p].status = FREE
    /\ DOMAIN held # {}
    /\ NoAdjacentFree(Cur)

\* ------------------------------------------------------------------- C3
\* C3: whenever every handle handed out has been released, in whatever order,
\* the allocator is back in the state Memory_Init produced: one FREE block at
\* the arena base of size MEMORY_POOL_SIZE - HeaderSize with no next and no prev.
C3_RoundTrip ==
    (is_initialized = 1 /\ DOMAIN held = {}) =>
        /\ Cur = Fresh
        /\ Chain(Cur) = <<ArenaBase>>

\* the last of at least three handles has just been released
C3_Witness ==
    /\ Freed
    /\ issued >= 3
    /\ DOMAIN held = {}
    /\ Len(Chain(pre.st)) >= 3
    /\ Cur = Fresh

\* ------------------------------------------------------------------- C4
LinksConsistent(s) ==
    LET c == Chain(s)
        h == s.hdr
    IN  /\ Len(c) > 0
        /\ h[c[1]].prev = NULL
        /\ \A i \in 1..Len(c) :
              /\ h[c[i]].next # NULL =>
                    h[c[i]].next \in DOMAIN h /\ h[h[c[i]].next].prev = c[i]
              /\ h[c[i]].prev # NULL =>
                    h[c[i]].prev \in DOMAIN h /\ h[h[c[i]].prev].next = c[i]
        /\ \A i \in 1..(Len(c) - 1) : c[i] < c[i + 1]
        /\ Reverse(WalkBack(h, c[Len(c)], Cardinality(DOMAIN h) + 1)) = c

\* C4: once initialized, every block's next points to a block whose prev points
\* back, and the other way round; the first block has no prev; and next from
\* the first block visits, in increasing address order, the blocks that prev
\* from the last block visits in reverse.
C4_LinksConsistent == is_initialized = 1 => LinksConsistent(Cur)

\* an allocation has just split a block that had a successor
C4_Witness ==
    /\ Allocated
    /\ LET b == last.ret - HeaderSize
       IN  /\ b \in DOMAIN pre.st.hdr
           /\ pre.st.hdr[b].next # NULL
           /\ hdr[b].next # pre.st.hdr[b].next
    /\ LinksConsistent(Cur)

\* ------------------------------------------------------------------- C5
\* the data region of handle p is [p, RegionEnd(s, p))
RegionEnd(s, p) == p + s.hdr[p - HeaderSize].size

RegionsSound(s, handles) ==
    /\ \A p \in handles :
          /\ p - HeaderSize \in DOMAIN s.hdr
          /\ p >= ArenaBase + HeaderSize
          /\ RegionEnd(s, p) <= ArenaEnd
          /\ \A c \in Blocks(s) : RegionEnd(s, p) <= c \/ c + HeaderSize <= p
    /\ \A p, q \in handles :
          p # q => (RegionEnd(s, p) <= q \/ RegionEnd(s, q) <= p)

\* C5: in every reachable state the data regions of the held handles lie inside
\* the arena past its first header, are pairwise disjoint and overlap no header
\* of the chain; and a handle My_Malloc returns is none of those already held.
C5_RegionsDisjoint ==
    /\ RegionsSound(Cur, DOMAIN held)
    /\ Allocated => last.ret \notin DOMAIN pre.held

\* a third handle has just been returned while two are held
C5_Witness ==
    /\ Allocated
    /\ Cardinality(DOMAIN pre.held) = 2
    /\ Cardinality(DOMAIN held) = 3
    /\ RegionsSound(Cur, DOMAIN held)

\* ------------------------------------------------------------------- C6
\* the blocks of the chain that are FREE and hold at least r bytes
Fits(s, r) == {b \in Blocks(s) : s.hdr[b].status = FREE /\ UGe(s.hdr[b].size, r)}

\* C6: a My_Malloc call whose rounded size r is not 0 returns a handle exactly
\* when the chain it searches has a FREE block of size >= r; the block it then
\* allocates is the one of lowest address among those; otherwise it returns
\* NULL from the end of the traversal.
C6_FirstFit ==
    (last.op = "malloc" /\ RoundUp4(last.arg) # 0) =>
        LET fits == Fits(Searched, RoundUp4(last.arg))
        IN  /\ (last.ret # NULL) <=> (fits # {})
            /\ last.ret # NULL =>
                  /\ last.ret - HeaderSize \in fits
                  /\ \A b \in fits : last.ret - HeaderSize <= b
                  /\ hdr[last.ret - HeaderSize].status = ALLOCATED
            /\ last.ret = NULL => last.why = "OutOfMemory"

\* an allocation has just passed over a FREE block that was too small
C6_Witness ==
    /\ Allocated
    /\ \E b \in Blocks(Searched) :
          /\ b < last.ret - HeaderSize
          /\ Searched.hdr[b].status = FREE
          /\ ULt(Searched.hdr[b].size, RoundUp4(last.arg))

\* ------------------------------------------------------------------- C7
\* C7: My_Malloc(0) returns NULL from the size check in every state, and a
\* request whose rounded size is above MEMORY_POOL_SIZE - HeaderSize returns
\* NULL from the end of the traversal in every state.
C7_BoundaryFailures ==
    last.op = "malloc" =>
        /\ last.arg = 0 => (last.ret = NULL /\ last.why = "InvalidSize")
        /\ ULt(MEMORY_POOL_SIZE - HeaderSize, RoundUp4(last.arg)) =>
              (last.ret = NULL /\ last.why = "OutOfMemory")

\* My_Malloc(MEMORY_POOL_SIZE) has just failed on the freshly initialized arena
C7_Witness ==
    /\ last.op = "malloc"
    /\ last.arg = MEMORY_POOL_SIZE
    /\ pre.st = Fresh
    /\ last.ret = NULL

\* ------------------------------------------------------------------- C8
\* My_Free rejects ptr: it is NULL or its header address is outside the arena
Rejected(ptr) == ptr = NULL \/ OutsidePool(ptr - HeaderSize)

\* C8: a My_Free call on NULL or on a pointer whose header address is outside
\* [ArenaBase, ArenaEnd) leaves every header, first_block and is_initialized
\* as they were.
C8_RejectedFreeNoMutation ==
    (last.op = "free" /\ Rejected(last.arg)) => Cur = pre.st

\* an out-of-range pointer has just been rejected while handles are held
C8_Witness ==
    /\ last.op = "free"
    /\ last.arg # NULL
    /\ OutsidePool(last.arg - HeaderSize)
    /\ Cardinality(DOMAIN held) >= 2
    /\ Cur = pre.st

\* ------------------------------------------------------------------- C9
\* C9: Memory_Init on the uninitialized allocator leaves the one FREE block of
\* the whole arena, a further Memory_Init changes nothing, and Memory_Init in
\* any initialized state leaves headers, first_block and flag as they were.
C9_InitIdempotent ==
    last.op = "init" =>
        /\ pre.st.is_initialized = 0 => Cur = Fresh
        /\ pre.st.is_initialized # 0 => Cur = pre.st
        /\ InitState(Cur) = Cur

\* Memory_Init has just been called with two handles held
C9_Witness ==
    /\ last.op = "init"
    /\ pre.st.is_initialized = 1
    /\ Cardinality(DOMAIN held) >= 2
    /\ Cur = pre.st

\* ------------------------------------------------------------------ C10
\* the blocks of the chain that are ALLOCATED
AllocatedBlocks(s) == {b \in Blocks(s) : s.hdr[b].status = ALLOCATED}

\* C10: for every held handle p, p - HeaderSize is a block of the chain that is
\* ALLOCATED with the size it had when p was returned, whatever other calls
\* came in between; the ALLOCATED blocks are exactly those of the held handles;
\* and My_Free(p) turns exactly that block FREE.
C10_HandleStable ==
    /\ \A p \in DOMAIN held :
          /\ p - HeaderSize \in Blocks(Cur)
          /\ hdr[p - HeaderSize].status = ALLOCATED
          /\ hdr[p - HeaderSize].size = held[p]
    /\ AllocatedBlocks(Cur) = {p - HeaderSize : p \in DOMAIN held}
    /\ Freed =>
          /\ last.arg - HeaderSize \in AllocatedBlocks(pre.st)
          /\ AllocatedBlocks(Cur) = AllocatedBlocks(pre.st) \ {last.arg - HeaderSize}

\* the block between two blocks whose handles are still held has just been
\* released
C10_Witness ==
    /\ Freed
    /\ Cardinality(DOMAIN held) >= 2
    /\ \E p \in DOMAIN held : hdr[p - HeaderSize].next = last.arg - HeaderSize
    /\ \E p \in DOMAIN held : hdr[p - HeaderSize].prev = last.arg - HeaderSize

\* ------------------------------------------------------------------ C11
\* the last call released a block whose chain neighbours were both FREE
BothSidesFree ==
    /\ Freed
    /\ LET b == last.arg - HeaderSize
           h == pre.st.hdr
       IN  /\ b \in DOMAIN h
           /\ h[b].prev # NULL /\ h[h[b].prev].status = FREE
           /\ h[b].next # NULL /\ h[h[b].next].status = FREE

\* C11: one My_Free of an ALLOCATED block with a FREE predecessor and a FREE
\* successor leaves a single FREE block at the predecessor's address of size
\* pred.size + block.size + succ.size + 2 * HeaderSize; the chain has two nodes
\* fewer; the block's next is the old successor's next, whose prev points back.
C11_ThreeWayMerge ==
    BothSidesFree =>
        LET h == pre.st.hdr
            b == last.arg - HeaderSize
            p == h[b].prev
            n == h[b].next
        IN  /\ p \in Blocks(Cur)
            /\ b \notin Blocks(Cur)
            /\ n \notin Blocks(Cur)
            /\ hdr[p].status = FREE
            /\ hdr[p].size = h[p].size + h[b].size + h[n].size + 2 * HeaderSize
            /\ Len(Chain(Cur)) = Len(Chain(pre.st)) - 2
            /\ hdr[p].next = h[n].next
            /\ h[n].next # NULL =>
                  h[n].next \in DOMAIN hdr /\ hdr[h[n].next].prev = p

\* such a release, with a block left after the old successor
C11_Witness ==
    /\ BothSidesFree
    /\ pre.st.hdr[pre.st.hdr[last.arg - HeaderSize].next].next # NULL
    /\ hdr[pre.st.hdr[last.arg - HeaderSize].prev].status = FREE

\* ------------------------------------------------------- the scenarios
\* main, lines 227-235: the three handles on the fresh arena
ptr1 == ArenaBase + HeaderSize

ptr2 == ptr1 + 100 + HeaderSize

ptr3 == ptr2 + 200 + HeaderSize

\* the allocator after My_Malloc (100), My_Malloc (200), My_Malloc (300)
ScenarioA ==
    State((ptr1 - HeaderSize :> Header(100, ALLOCATED, ptr2 - HeaderSize, NULL)) @@
          (ptr2 - HeaderSize :> Header(200, ALLOCATED, ptr3 - HeaderSize, ptr1 - HeaderSize)) @@
          (ptr3 - HeaderSize :> Header(300, ALLOCATED, ptr3 + 300, ptr2 - HeaderSize)) @@
          (ptr3 + 300 :> Header(ArenaEnd - (ptr3 + 300) - HeaderSize, FREE, NULL,
                                ptr3 - HeaderSize)),
          ArenaBase, 1)

\* line 240 has just run on it
AfterScenarioB == Freed /\ last.arg = ptr2 /\ pre.st = ScenarioA

\* line 244 has just run after that
AfterScenarioC ==
    /\ Freed
    /\ last.arg = ptr1
    /\ pre.st = State(Release(ScenarioA.hdr, ptr2 - HeaderSize), ArenaBase, 1)
    /\ DOMAIN pre.held = {ptr1, ptr3}

NumWithStatus(s, st) == Cardinality({b \in Blocks(s) : s.hdr[b].status = st})

\* the released 200-byte block is still a block of its own between two
\* ALLOCATED blocks
Unmerged ==
    /\ ptr2 - HeaderSize \in Blocks(Cur)
    /\ hdr[ptr2 - HeaderSize].status = FREE
    /\ hdr[ptr2 - HeaderSize].size >= 200
    /\ hdr[hdr[ptr2 - HeaderSize].prev].status = ALLOCATED
    /\ hdr[hdr[ptr2 - HeaderSize].next].status = ALLOCATED

\* ------------------------------------------------------------------ C12
\* C12 as stated: after My_Malloc (100), (200), (300) and My_Free of the
\* 200-byte handle the chain has 4 blocks, three ALLOCATED and one FREE of
\* size >= 200, the freed block unmerged between ALLOCATED neighbours.
C12_ScenarioB_AsStated ==
    AfterScenarioB =>
        /\ Len(Chain(Cur)) = 4
        /\ NumWithStatus(Cur, ALLOCATED) = 3
        /\ NumWithStatus(Cur, FREE) = 1
        /\ Unmerged

\* C12 amended: the chain has 4 blocks, two ALLOCATED (100 and 300 bytes) and
\* two FREE: the released block, of size 200 and unmerged between ALLOCATED
\* neighbours, and the remainder of the arena at the end of the chain.
C12_ScenarioB ==
    AfterScenarioB =>
        /\ Len(Chain(Cur)) = 4
        /\ NumWithStatus(Cur, ALLOCATED) = 2
        /\ NumWithStatus(Cur, FREE) = 2
        /\ Unmerged
        /\ hdr[ptr2 - HeaderSize].size = 200
        /\ hdr[ptr1 - HeaderSize].status = ALLOCATED
        /\ hdr[ptr3 - HeaderSize].status = ALLOCATED
        /\ hdr[Chain(Cur)[4]].status = FREE
        /\ hdr[Chain(Cur)[4]].size = MEMORY_POOL_SIZE - 600 - 4 * HeaderSize

C12_Witness == AfterScenarioB /\ DOMAIN held = {ptr1, ptr3} /\ Len(Chain(Cur)) = 4

\* ------------------------------------------------------------------ C13
\* C13: My_Free of the 100-byte handle after scenario B leaves one FREE block at
\* that handle's block of size 100 + HeaderSize + 200, the chain one node
\* shorter, and the 300-byte block's prev pointing at the merged block.
C13_ScenarioC ==
    AfterScenarioC =>
        LET b == ptr1 - HeaderSize
        IN  /\ Chain(Cur) = <<b, ptr3 - HeaderSize, ptr3 + 300>>
            /\ Len(Chain(Cur)) = Len(Chain(pre.st)) - 1
            /\ hdr[b].status = FREE
            /\ hdr[b].size = pre.st.hdr[b].size + HeaderSize
                                + pre.st.hdr[ptr2 - HeaderSize].size
            /\ hdr[b].size >= 100 + 200 + HeaderSize
            /\ hdr[b].next = ptr3 - HeaderSize
            /\ hdr[ptr3 - HeaderSize].prev = b
            /\ hdr[ptr3 - HeaderSize].status = ALLOCATED

C13_Witness == AfterScenarioC /\ DOMAIN held = {ptr3} /\ hdr[ArenaBase].size = 332

\* ------------------------------------------------------------------ C14
\* C14 as stated: the size searched for is the next multiple of 4 that is
\* >= requestedSize for every size_t value, and My_Malloc leaves by the size
\* check only when that value is 0, so not for a request within 3 of SIZE_MAX.
C14_Rounding_AsStated ==
    last.op = "malloc" =>
        /\ UGe(RoundUp4(last.arg), last.arg)
        /\ last.why = "InvalidSize" => last.arg = 0

\* ------------------------------------------------------------------ C15
\* the block a successful My_Malloc returned, as the search found it
Candidate == Searched.hdr[last.ret - HeaderSize]

\* the call split its candidate: the chain has one block more
DidSplit == Len(Chain(Cur)) = Len(Chain(Searched)) + 1

\* C15: a successful My_Malloc of rounded size r splits its candidate exactly
\* when candidate.size >= r + 2 * HeaderSize; then the candidate's size is r and
\* a FREE block of size candidate.size - r - HeaderSize >= HeaderSize sits at
\* candidate + HeaderSize + r as its successor, followed by the old successor,
\* whose prev points to the new block.
C15_SplitRule ==
    Allocated =>
        LET b == last.ret - HeaderSize
            r == RoundUp4(last.arg)
            nb == b + HeaderSize + r
        IN  /\ DidSplit <=> UGe(Candidate.size, r + HeaderSize + HeaderSize)
            /\ DidSplit =>
                  /\ hdr[b].size = r
                  /\ hdr[b].next = nb
                  /\ nb \in DOMAIN hdr
                  /\ nb \notin Blocks(Searched)
                  /\ hdr[nb].status = FREE
                  /\ hdr[nb].size = Candidate.size - r - HeaderSize
                  /\ hdr[nb].size >= HeaderSize
                  /\ hdr[nb].prev = b
                  /\ hdr[nb].next = Candidate.next
                  /\ Candidate.next # NULL => hdr[Candidate.next].prev = nb

\* a split at the threshold exactly, of a block that has a successor
C15_Witness ==
    /\ Allocated
    /\ DidSplit
    /\ Candidate.size = RoundUp4(last.arg) + 2 * HeaderSize
    /\ Candidate.next # NULL
    /\ hdr[last.ret - HeaderSize].size = RoundUp4(last.arg)

\* ------------------------------------------------------------------ C16
\* the FREE blocks of s that pre-state t did not have as they are
NewFree(s, t) ==
    {b \in Blocks(s) : s.hdr[b].status = FREE
                         /\ (b \notin Blocks(t) \/ t.hdr[b] # s.hdr[b])}

\* C16: a successful My_Malloc whose candidate has size < r + 2 * HeaderSize
\* allocates it as it is: same size, same number of chain nodes; and no
\* My_Malloc call creates a FREE node of size < HeaderSize.
C16_NoSplit ==
    /\ (Allocated /\ ULt(Candidate.size, RoundUp4(last.arg) + 2 * HeaderSize)) =>
          /\ hdr[last.ret - HeaderSize].size = Candidate.size
          /\ hdr[last.ret - HeaderSize].next = Candidate.next
          /\ Len(Chain(Cur)) = Len(Chain(Searched))
    /\ last.op = "malloc" =>
          \A b \in NewFree(Cur, pre.st) : hdr[b].size >= HeaderSize

\* a candidate with a surplus below the threshold has just been allocated whole
C16_Witness ==
    /\ Allocated
    /\ Candidate.size > RoundUp4(last.arg)
    /\ Candidate.size < RoundUp4(last.arg) + 2 * HeaderSize
    /\ Candidate.next # NULL
    /\ hdr[last.ret - HeaderSize].size = Candidate.size

\* ------------------------------------------------------------------ C17
\* the blocks of both chains whose status went from a to b
Became(s, t, a, b) ==
    {x \in Blocks(s) \cap Blocks(t) : s.hdr[x].status = a /\ t.hdr[x].status = b}

\* C17: a My_Malloc call turns exactly one block from FREE to ALLOCATED when it
\* returns a handle (that handle's block) and none otherwise, and turns no
\* block FREE; a My_Free call turns no block ALLOCATED and takes only the
\* block of the handle it was given out of the ALLOCATED ones; Memory_Init
\* changes no block's status.
C17_StatusTransitions ==
    /\ last.op = "malloc" =>
          /\ Became(Searched, Cur, FREE, ALLOCATED)
                = (IF last.ret = NULL THEN {} ELSE {last.ret - HeaderSize})
          /\ Became(Searched, Cur, ALLOCATED, FREE) = {}
          /\ AllocatedBlocks(Cur)
                = AllocatedBlocks(Searched) \cup Became(Searched, Cur, FREE, ALLOCATED)
    /\ last.op = "free" =>
          /\ Became(pre.st, Cur, FREE, ALLOCATED) = {}
          /\ Became(pre.st, Cur, ALLOCATED, FREE) \subseteq {last.arg - HeaderSize}
          /\ AllocatedBlocks(pre.st) \ AllocatedBlocks(Cur)
                = (IF last.why = "ok" THEN {last.arg - HeaderSize} ELSE {})
          /\ AllocatedBlocks(Cur) \subseteq AllocatedBlocks(pre.st)
    /\ last.op = "init" =>
          /\ Became(pre.st, Cur, FREE, ALLOCATED) = {}
          /\ Became(pre.st, Cur, ALLOCATED, FREE) = {}

\* a release has just turned its block FREE in place, other blocks staying
\* ALLOCATED
C17_Witness ==
    /\ Freed
    /\ Became(pre.st, Cur, ALLOCATED, FREE) = {last.arg - HeaderSize}
    /\ Cardinality(AllocatedBlocks(Cur)) >= 2

\* ------------------------------------------------------------------ C18
\* C18: My_Malloc on the uninitialized allocator returns what it returns after
\* Memory_Init and leaves the state that call leaves, for every size: a request
\* that fails leaves the one FREE block of the whole arena, flag set.
C18_ImplicitInit ==
    (last.op = "malloc" /\ pre.st.is_initialized = 0) =>
        LET out == MallocOp(Fresh, last.arg)
        IN  /\ InitState(pre.st) = Fresh
            /\ Cur = out.st
            /\ last.ret = out.ret
            /\ last.why = out.why
            /\ is_initialized = 1
            /\ last.ret = NULL => Cur = Fresh
            /\ last.ret # NULL =>
                  last.ret = ArenaBase + HeaderSize /\ hdr[ArenaBase].status = ALLOCATED

\* My_Malloc (0) has just been rejected by the uninitialized allocator
C18_Witness ==
    /\ last.op = "malloc"
    /\ pre.st.is_initialized = 0
    /\ last.arg = 0
    /\ last.ret = NULL
    /\ Cur = Fresh

\* ------------------------------------------------------------------ C19
\* C19: a My_Malloc call that returns NULL on an initialized allocator leaves
\* every header, first_block and is_initialized as they were.
C19_FailedMallocNoMutation ==
    (last.op = "malloc" /\ last.ret = NULL /\ pre.st.is_initialized # 0) =>
        /\ Cur = pre.st
        /\ held = pre.held

\* a request has just failed for want of a large enough FREE block while FREE
\* blocks exist and handles are held
C19_Witness ==
    /\ last.op = "malloc"
    /\ last.why = "OutOfMemory"
    /\ NumWithStatus(Cur, FREE) >= 2
    /\ DOMAIN held # {}
    /\ Cur = pre.st

\* ------------------------------------------------------------------ C20
\* the blocks the while loop of lines 76-117 examines for a rounded size, at
\* most fuel of them
RECURSIVE Visited(_, _, _, _)
Visited(h, cur, size, fuel) ==
    IF cur = NULL \/ fuel = 0 \/ cur \notin DOMAIN h
    THEN <<>>
    ELSE IF h[cur].status = FREE /\ UGe(h[cur].size, size)
         THEN <<cur>>
         ELSE <<cur>> \o Visited(h, h[cur].next, size, fuel - 1)

Acyclic(s) ==
    LET c == Chain(s)
    IN  /\ Len(c) <= Cardinality(DOMAIN s.hdr)
        /\ \A i, j \in 1..Len(c) : i # j => c[i] # c[j]
        /\ Len(c) > 0 => s.hdr[c[Len(c)]].next = NULL
        /\ Len(c) * HeaderSize <= MEMORY_POOL_SIZE

\* C20: in every reachable state the chain from first_block is finite and
\* free of cycles, ending in NULL, and for every request the traversal of
\* My_Malloc examines an initial part of it, each block once, whether it ends
\* at a fitting block or at the end of the chain.
C20_TraversalsTerminate ==
    /\ Acyclic(Cur)
    /\ LET c == Chain(Cur)
           fuel == Cardinality(DOMAIN hdr) + 1
       IN  \A size \in Requests :
              LET v == Visited(hdr, first_block, RoundUp4(size), fuel)
              IN  /\ Len(v) <= Len(c)
                  /\ v = SubSeq(c, 1, Len(v))
                  /\ (\A i \in 1..Len(v) :
                         ~(hdr[v[i]].status = FREE /\ UGe(hdr[v[i]].size, RoundUp4(size))))
                        => v = c

\* a traversal has just run through a chain of four blocks, two of them FREE,
\* without finding a fit
C20_Witness ==
    /\ last.op = "malloc"
    /\ last.why = "OutOfMemory"
    /\ Len(Chain(Cur)) >= 4
    /\ NumWithStatus(Cur, FREE) >= 2
    /\ Visited(hdr, first_block, RoundUp4(last.arg), Cardinality(DOMAIN hdr) + 1) = Chain(Cur)
    /\ Acyclic(Cur)

====
